---- MODULE Spec2Model ----
(***************************************************************************)
(* siterender: the rendering pipeline of src/src/logic.ts and its entry   *)
(* point src/src/siterender.ts.                                            *)
(*                                                                         *)
(* src/src/logic.ts holds two revisions of the pipeline:                   *)
(*   "current" : startRendering / renderPages / processQueue /             *)
(*               retryRenderPage / renderPage          (lines 28-270),     *)
(*               started by src/src/siterender.ts;                         *)
(*   "earlier" : main / processSitemapUrls / renderPage /                  *)
(*               launchBrowserWithRetries / closeBrowserWithRetries        *)
(*               (lines 291-562).                                          *)
(* The variable rev says which revision a run executes.                    *)
(*                                                                         *)
(* Strings are sequences of atoms.  The atoms "/" and "." are the two      *)
(* characters the path code looks at; every other atom stands for a        *)
(* non-empty run of characters holding neither.  The first atom of a URL   *)
(* is its origin (scheme and host), the rest is its path.                  *)
(***************************************************************************)
EXTENDS Integers, Sequences, FiniteSets, TLC

\* ------------------------------------------------------------------ bounds

\* longest resolved URL list
MaxUrls == 2
\* largest --parallel-renders
MaxParallel == 2
\* largest --max-retries
MaxRetries == 1
\* largest --max-retries of the single-worker runs of SpecRetry
MaxDeepRetries == 5
\* largest size of a run of Spec: its URLs, workers and retries together
MaxLoad == 5

\* ----------------------------------------------------------------- strings

Last(s) == s[Len(s)]

EndsWith(s, t) ==
    /\ Len(t) <= Len(s)
    /\ SubSeq(s, Len(s) - Len(t) + 1, Len(s)) = t

StartsWith(s, p) ==
    /\ Len(p) <= Len(s)
    /\ SubSeq(s, 1, Len(p)) = p

\* the largest index of atom c in s, 0 when s does not hold it
LastIndexOf(s, c) ==
    LET at == {i \in 1..Len(s) : s[i] = c}
    IN  IF at = {} THEN 0 ELSE CHOOSE i \in at : \A k \in at : k <= i

\* s.split('/') : the segments between the slashes, empty ones included
RECURSIVE SplitFrom(_, _, _)
SplitFrom(s, i, cur) ==
    IF i > Len(s) THEN <<cur>>
    ELSE IF s[i] = "/" THEN <<cur>> \o SplitFrom(s, i + 1, <<>>)
    ELSE SplitFrom(s, i + 1, Append(cur, s[i]))

Split(s) == SplitFrom(s, 1, <<>>)

\* segs.join('/')
RECURSIVE JoinSegs(_)
JoinSegs(segs) ==
    IF segs = <<>> THEN <<>>
    ELSE IF Len(segs) = 1 THEN segs[1]
    ELSE segs[1] \o <<"/">> \o JoinSegs(Tail(segs))

\* node's normalizeString: drops '' and '.', lets '..' take the segment
\* before it away, and keeps a leading '..' only for a relative path
RECURSIVE NormalizeSegs(_, _, _)
NormalizeSegs(segs, acc, allowAboveRoot) ==
    IF segs = <<>> THEN acc
    ELSE LET s == Head(segs)
             rest == Tail(segs)
         IN  IF s = <<>> \/ s = <<".">>
                 THEN NormalizeSegs(rest, acc, allowAboveRoot)
             ELSE IF s = <<".", ".">>
                 THEN IF acc # <<>> /\ Last(acc) # <<".", ".">>
                          THEN NormalizeSegs(rest, SubSeq(acc, 1, Len(acc) - 1), allowAboveRoot)
                      ELSE IF allowAboveRoot
                          THEN NormalizeSegs(rest, Append(acc, s), allowAboveRoot)
                      ELSE NormalizeSegs(rest, acc, allowAboveRoot)
             ELSE NormalizeSegs(rest, Append(acc, s), allowAboveRoot)

\* path.normalize (posix)
PathNormalize(p) ==
    IF p = <<>> THEN <<".">>
    ELSE LET isAbsolute == p[1] = "/"
             trailing == Last(p) = "/"
             body == JoinSegs(NormalizeSegs(Split(p), <<>>, ~isAbsolute))
             named == IF body = <<>> /\ ~isAbsolute THEN <<".">> ELSE body
             closed == IF body # <<>> /\ trailing THEN named \o <<"/">> ELSE named
         IN  IF isAbsolute THEN <<"/">> \o closed ELSE closed

\* path.join(a, b) (posix): the non-empty arguments joined by '/', normalized
PathJoin(a, b) ==
    IF a = <<>> THEN PathNormalize(b)
    ELSE IF b = <<>> THEN PathNormalize(a)
    ELSE PathNormalize(a \o <<"/">> \o b)

\* path.extname (posix): from the last '.' of the last segment to the end;
\* empty when there is no '.', when the '.' opens the segment, and for '..'
PathExtname(p) ==
    LET segs == Split(p)
        base == Last(segs)
        dot  == LastIndexOf(base, ".")
    IN  IF dot <= 1 \/ base = <<".", ".">> THEN <<>>
        ELSE SubSeq(base, dot, Len(base))

\* path.dirname (posix) of a path without a trailing '/'
PathDirname(p) ==
    LET slash == LastIndexOf(p, "/")
    IN  IF slash = 0 THEN <<".">>
        ELSE IF slash = 1 THEN <<"/">>
        ELSE SubSeq(p, 1, slash - 1)

\* ------------------------------------------------------------------- URLs

\* the URL parser's path state: a '.' segment is dropped, a '..' segment
\* takes the segment before it away, and either of them at the end of the
\* path leaves an empty last segment
RECURSIVE UrlSegs(_, _)
UrlSegs(segs, acc) ==
    IF segs = <<>> THEN acc
    ELSE LET s == Head(segs)
             atEnd == Len(segs) = 1
             popped == IF acc = <<>> THEN acc ELSE SubSeq(acc, 1, Len(acc) - 1)
         IN  IF s = <<".", ".">>
                 THEN UrlSegs(Tail(segs), IF atEnd THEN Append(popped, <<>>) ELSE popped)
             ELSE IF s = <<".">>
                 THEN UrlSegs(Tail(segs), IF atEnd THEN Append(acc, <<>>) ELSE acc)
             ELSE UrlSegs(Tail(segs), Append(acc, s))

\* a URL with an opaque path: its scheme is not a special one (http, https,
\* ...) and no '/' follows the colon, as in 'x:../a'; origin "X" stands for
\* the scheme and the colon
OpaquePath(url) == url[1] = "X"

\* new URL(url).pathname : an opaque path as it is written; any other path
\* with its dot segments resolved, '/' when the URL has none
Pathname(url) ==
    IF OpaquePath(url) THEN Tail(url)
    ELSE IF Len(url) <= 1 THEN <<"/">>
    ELSE <<"/">> \o JoinSegs(UrlSegs(Tail(Split(Tail(url))), <<>>))

IndexHtml == <<"index", ".", "html">>
DotHtml == <<".", "html">>

\* a mapping that gives a path without an extension the name <path>.html
getFilePathDotHtml(url, outputDir) ==
    LET pathName == Pathname(url)
        mapped == IF EndsWith(pathName, <<"/">>) THEN pathName \o IndexHtml
                  ELSE IF PathExtname(pathName) = <<>>
                      THEN pathName \o DotHtml
                  ELSE pathName
    IN  PathJoin(outputDir, mapped)

\* a mapping that gives a path with an extension one more '.html'
getFilePathSuffixed(url, outputDir) ==
    LET pathName == Pathname(url)
        mapped == IF EndsWith(pathName, <<"/">>) THEN pathName \o IndexHtml
                  ELSE IF PathExtname(pathName) = <<>>
                      THEN pathName \o <<"/">> \o IndexHtml
                  ELSE pathName \o DotHtml
    IN  PathJoin(outputDir, mapped)

\* logic.ts 230-239
getFilePath(url, outputDir) ==
    LET pathName == Pathname(url)
        mapped == IF EndsWith(pathName, <<"/">>) THEN pathName \o IndexHtml
                  ELSE IF PathExtname(pathName) = <<>>
                      THEN pathName \o <<"/">> \o IndexHtml
                  ELSE pathName
    IN  PathJoin(outputDir, mapped)

\* logic.ts 327-340, the earlier revision
getFilePathEarlier(url, outputDir) ==
    LET pathName == Pathname(url)
        filePath == PathJoin(outputDir, pathName)
    IN  IF ~EndsWith(pathName, <<"/">>) /\ ~EndsWith(pathName, DotHtml)
            THEN PathJoin(filePath, IndexHtml)
        ELSE IF EndsWith(pathName, <<"/">>)
            THEN PathJoin(filePath, IndexHtml)
        ELSE filePath \o DotHtml

\* ------------------------------------------------------- URL replacement

\* logic.ts 107-110 and 317: replaceUrl.split('='), first two parts
RECURSIVE SplitEq(_, _, _)
SplitEq(s, i, cur) ==
    IF i > Len(s) THEN <<cur>>
    ELSE IF s[i] = "=" THEN <<cur>> \o SplitEq(s, i + 1, <<>>)
    ELSE SplitEq(s, i + 1, Append(cur, s[i]))

\* "undefined" is what destructuring gives for a part that is not there
parseUrlReplacement(replaceUrl) ==
    LET parts == SplitEq(replaceUrl, 1, <<>>)
    IN  [newPrefix |-> parts[1],
         oldPrefix |-> IF Len(parts) >= 2 THEN parts[2] ELSE <<"undefined">>]

\* the least index at which old occurs in s, 0 when it does not
IndexOf(s, old) ==
    LET at == {i \in 1..(Len(s) - Len(old) + 1) : SubSeq(s, i, i + Len(old) - 1) = old}
    IN  IF at = {} THEN 0 ELSE CHOOSE i \in at : \A k \in at : i <= k

\* String.prototype.replace with a string pattern: the first occurrence only
StringReplace(s, old, new) ==
    LET i == IndexOf(s, old)
    IN  IF i = 0 THEN s
        ELSE SubSeq(s, 1, i - 1) \o new \o SubSeq(s, i + Len(old), Len(s))

\* a rewrite of the first occurrence of oldPrefix, wherever it is
FinalUrlAnywhere(url, rule) ==
    IF rule # <<>>
        THEN StringReplace(url, parseUrlReplacement(rule).oldPrefix,
                           parseUrlReplacement(rule).newPrefix)
    ELSE url

\* a dequeue that hands the URL on as it is
FinalUrlUnchanged(url, rule) == url

\* logic.ts 156-158; rule <<>> is a run without --replace-url
FinalUrl(url, rule) ==
    IF rule # <<>> /\ StartsWith(url, parseUrlReplacement(rule).oldPrefix)
        THEN StringReplace(url, parseUrlReplacement(rule).oldPrefix,
                           parseUrlReplacement(rule).newPrefix)
    ELSE url

\* logic.ts 316-319, the earlier revision: every URL of the list
RECURSIVE replaceUrl(_, _)
replaceUrl(list, rule) ==
    IF list = <<>> THEN <<>>
    ELSE <<StringReplace(Head(list), parseUrlReplacement(rule).oldPrefix,
                         parseUrlReplacement(rule).newPrefix)>>
         \o replaceUrl(Tail(list), rule)

\* ------------------------------------------------------------- the inputs

Revs == {"current", "earlier"}

\* the URLs a sitemap may list
UrlPool == {<<"O">>, <<"O", "/", "a">>}

\* --replace-url : absent, or new=old
ReplaceRules == {<<>>, <<"N", "=", "O">>}

\* --output
OutputDirs == {<<"out">>}

\* URLs with the paths the path mapping tells apart: no path, '/', a plain
\* segment, a trailing '/', extensions, a dot file, '..' and '.' segments,
\* an empty segment, another origin, opaque paths
FrontUrls ==
    {<<"O">>, <<"O", "/">>, <<"O", "/", "a">>, <<"O", "/", "a", "/">>,
     <<"O", "/", "a", ".", "html">>, <<"O", "/", "a", ".", "css">>,
     <<"O", "/", ".", "h">>, <<"O", "/", "a", "/", "b">>,
     <<"O", "/", ".", ".", "/", "x">>,
     <<"O", "/", "a", "/", ".", ".", "/", ".", ".">>,
     <<"O", "/", "a", "/", ".", "/", "b">>,
     <<"O", "/", "/", "a">>, <<"N", "/", "a">>,
     <<"X", "a">>, <<"X", ".", ".", "/", "a">>}

\* --replace-url : absent; the origin as oldPrefix; an oldPrefix that occurs
\* inside the URLs and not at their start; prefixes with a path; no '='
FrontRules ==
    {<<>>, <<"N", "=", "O">>, <<"N", "=", "a">>,
     <<"N", "/", "x", "=", "O", "/", "a">>, <<"N">>}

\* --output : relative, with a trailing '/', '.', './out', absolute,
\* '../out', and the empty string
FrontOutputDirs ==
    {<<"out">>, <<"out", "/">>, <<".">>, <<".", "/", "out">>, <<"/", "out">>,
     <<".", ".", "/", "out">>, <<>>}

Workers == 1..MaxParallel

\* A sitemap document as new XMLParser().parse gives it (logic.ts 22, 50,
\* 76): src is the address it is read from; root is its root element;
\* shape says what the parser made of the root's url (sitemap) children:
\*   "empty" : the root has no content, its value is '' (falsy)
\*   "junk"  : the root has content but no url (sitemap) child
\*   "one"   : one child, given as a single object
\*   "many"  : several children, given as an array
\* locs are the loc values of a urlset's url children, subs the documents
\* at the loc of a sitemapindex's sitemap children.
Doc(src, root, shape, locs, subs) ==
    [src |-> src, root |-> root, shape |-> shape, locs |-> locs, subs |-> subs]

ShapeOf(items) ==
    IF items = <<>> THEN "empty" ELSE IF Len(items) = 1 THEN "one" ELSE "many"

UrlSet(src, locs) == Doc(src, "urlset", ShapeOf(locs), locs, <<>>)

SitemapIndex(src, subs) == Doc(src, "sitemapindex", ShapeOf(subs), <<>>, subs)

\* every loc of every urlset of a document tree
RECURSIVE AllLocs(_)
AllLocs(doc) ==
    {doc.locs[i] : i \in 1..Len(doc.locs)}
        \cup UNION {AllLocs(doc.subs[i]) : i \in 1..Len(doc.subs)}

\* the number of url entries of a document tree
RECURSIVE CountLocs(_)
CountLocs(doc) ==
    IF doc.subs = <<>> THEN Len(doc.locs)
    ELSE Len(doc.locs) + CountLocs(doc.subs[1])
            + CountLocs([doc EXCEPT !.locs = <<>>, !.subs = Tail(@)])

\* the sitemaps of Spec: every URL set of at most MaxUrls URLs of the pool,
\* and a sitemap index with one entry
Sitemaps ==
    {UrlSet("top", locs) : locs \in UNION {[1..n -> UrlPool] : n \in 0..MaxUrls}}
        \cup {SitemapIndex("top", <<UrlSet("s1", <<<<"O">>>>)>>)}

\* --sitemap-file / --sitemap-url : which of the two the command line gives
SitemapFrom == {"url", "none"}

\* the directory of a path and every directory above it
RECURSIVE Ancestors(_)
Ancestors(dir) ==
    IF dir = <<".">> \/ dir = <<"/">> THEN {}
    ELSE {dir} \cup Ancestors(PathDirname(dir))

\* milliseconds Math.random() * 1000 may give (logic.ts 186)
Jitters == {0, 999}
\* milliseconds Math.floor(Math.random() * 8000) + 1 may give (logic.ts 375)
EarlierDelays == {1, 8000}

Min(a, b) == IF a <= b THEN a ELSE b

\* a backoff without the 8000 ms ceiling
BackoffUncapped(attempt) == (2 ^ attempt) * 1000

\* logic.ts 185
Backoff(attempt) == Min((2 ^ attempt) * 1000, 8000)

\* -------------------------------------------------------------- the state

VARIABLES
    rev,        \* the revision that runs
    argv,       \* the command line: parallelRenders, maxRetries, replaceUrl,
                \* sitemapFrom, output
    sitemap,    \* the document at the sitemap source, as the parser gives it
    pending,    \* the referenced sitemaps still to be read, next one first
    gets,       \* history: the addresses of the GET requests issued, in order
    phase,      \* where the top-level function is
    urls,       \* the resolved URL list
    queue,      \* the shared queue: indices into urls, in order
    wk,         \* the workers: one record per processQueue task
    browser,    \* the shared browser session and the calls made on it
    files,      \* the file paths that exist
    dirs,       \* the directories that exist
    exit,       \* process exit: code, cause, and the error line reported
    shifts,     \* history: the queue entries removed by queue.shift(), in order
    rendered,   \* history: the queue entries whose render returned normally
    writes,     \* history: the writeFile calls that resolved: path, queue
                \* entry and attempt
    paths       \* the file path and directories of each URL of the run: what
                \* getFilePath, path.dirname and mkdir compute from the URL
                \* and the output root, which do not change during a run

vars == <<rev, argv, sitemap, pending, gets, phase, urls, queue, wk, browser,
          files, dirs, exit, shifts, rendered, writes, paths>>

\* the record of a writeFile call of worker record r that resolved
WriteOf(r, filePath) == [path |-> filePath, job |-> r.job, attempt |-> r.attempt]

\* argv.output
OutputDir == argv.output

\* the URLs a run over the sitemap document doc may hand to getFilePath:
\* its loc values, as they are or as either revision rewrites them
RenderUrlsOf(doc, rule) ==
    UNION {{url, FinalUrl(url, rule), Head(replaceUrl(<<url>>, rule))} :
            url \in AllLocs(doc)}

\* what revision r computes for url under the output root: the file path
\* (logic.ts 206, 409), its directory (246, 349) and the directories that
\* mkdir(dir, {recursive: true}) sees to (249, 349)
PathsFor(r, url, root) ==
    LET filePath == IF r = "current" THEN getFilePath(url, root)
                    ELSE getFilePathEarlier(url, root)
    IN  [file |-> filePath, dir |-> PathDirname(filePath),
         made |-> Ancestors(PathDirname(filePath))]

\* the file path revision r gives the page of url
FilePathOf(r, url) ==
    IF url \in DOMAIN paths THEN paths[url].file
    ELSE IF r = "current" THEN getFilePath(url, OutputDir)
    ELSE getFilePathEarlier(url, OutputDir)

\* the URLs of the run with the file path filePath
UrlsAt(filePath) == {url \in DOMAIN paths : paths[url].file = filePath}

\* path.dirname(filePath)
DirnameOf(filePath) ==
    IF UrlsAt(filePath) # {} THEN paths[CHOOSE url \in UrlsAt(filePath) : TRUE].dir
    ELSE PathDirname(filePath)

\* the directories mkdir(path.dirname(filePath), {recursive: true}) sees to
DirsMadeFor(filePath) ==
    IF UrlsAt(filePath) # {} THEN paths[CHOOSE url \in UrlsAt(filePath) : TRUE].made
    ELSE Ancestors(PathDirname(filePath))

NoWorker ==
    [pc |-> "unborn", job |-> 0, url |-> <<>>, attempt |-> 0, page |-> FALSE,
     wrote |-> FALSE, err |-> "none", after |-> "none", tries |-> 0,
     navCalls |-> 0, pageFails |-> 0, delay |-> 0]

NoExit ==
    [code |-> "none", fatal |-> "none", named |-> <<>>, msg |-> "none", worker |-> 0]

Init ==
    /\ rev \in Revs
    /\ argv \in [parallelRenders : 0..MaxParallel,
                 maxRetries : (-1)..MaxRetries,
                 replaceUrl : ReplaceRules,
                 sitemapFrom : SitemapFrom,
                 output : OutputDirs]
    /\ sitemap \in Sitemaps
    /\ CountLocs(sitemap) + argv.parallelRenders + argv.maxRetries <= MaxLoad
    /\ paths = [url \in RenderUrlsOf(sitemap, argv.replaceUrl) |->
                    PathsFor(rev, url, argv.output)]
    /\ pending = <<>>
    /\ gets = <<>>
    /\ phase = "args"
    /\ urls = <<>>
    /\ queue = <<>>
    /\ wk = [w \in Workers |-> NoWorker]
    /\ browser = [state |-> "none", launchCalls |-> 0, closeCalls |-> 0,
                  attempt |-> 0, delay |-> 0]
    /\ files \in SUBSET {FilePathOf(rev, url) : url \in AllLocs(sitemap)}
    /\ dirs = UNION {Ancestors(PathDirname(f)) : f \in files}
    /\ exit = NoExit
    /\ shifts = <<>>
    /\ rendered = {}
    /\ writes = {}

Running == exit.code = "none"

\* process.exit(1) out of worker w (0: the top-level function), after an
\* error line that names a URL or a path and gives the message msg
Fatal(cause, named, msg, w) ==
    [code |-> "1", fatal |-> cause, named |-> named, msg |-> msg, worker |-> w]

\* ------------------------------------------- the current revision: workers

\* fs.existsSync(dir)
DirExists(dir) == dir = <<".">> \/ dir = <<"/">> \/ dir \in dirs

\* logic.ts 154: while (queue.length > 0)
QueueNotEmpty(q) == Len(q) > 0

\* a queue read that leaves the item in the queue
QueueShiftKeepsItem(q) == [item |-> Head(q), rest |-> q]

\* a queue read that takes the last item
QueueShiftLast(q) == [item |-> Last(q), rest |-> SubSeq(q, 1, Len(q) - 1)]

\* logic.ts 155: queue.shift() : the item removed and the queue left
QueueShift(q) == [item |-> Head(q), rest |-> Tail(q)]

\* logic.ts 177: attempt <= maxRetries
AttemptAllowed(attempt, maxRetries) == attempt <= maxRetries

\* a retry test that gives up one attempt early
RetryAllowedShort(attempt, maxRetries) == attempt < maxRetries - 1

\* a retry test that never gives up
RetryAllowedAlways(attempt, maxRetries) == attempt <= maxRetries

\* logic.ts 183: attempt < maxRetries
RetryAllowed(attempt, maxRetries) == attempt < maxRetries

\* a turn that, with the queue empty, comes back for another turn
ProcessQueueTurnSpins(w, st) ==
    IF ~QueueNotEmpty(st.queue)
        THEN [st EXCEPT !.wk[w] = [NoWorker EXCEPT !.pc = "returned"]]
    ELSE LET sh == QueueShift(st.queue)
             go == AttemptAllowed(0, argv.maxRetries)
         IN  [wk |-> [st.wk EXCEPT ![w] =
                        [NoWorker EXCEPT
                            !.pc = IF go THEN "newPage" ELSE "returned",
                            !.job = sh.item,
                            !.url = FinalUrl(urls[sh.item], argv.replaceUrl),
                            !.tries = IF go THEN 1 ELSE 0]],
              queue |-> sh.rest,
              shifts |-> Append(st.shifts, sh.item)]

\* a turn that lets the next URL go on from the attempt counter of the last
ProcessQueueTurnKeepsAttempt(w, st) ==
    IF ~QueueNotEmpty(st.queue)
        THEN [st EXCEPT !.wk[w] = [NoWorker EXCEPT !.pc = "done"]]
    ELSE LET sh == QueueShift(st.queue)
             go == AttemptAllowed(st.wk[w].attempt, argv.maxRetries)
         IN  [wk |-> [st.wk EXCEPT ![w] =
                        [NoWorker EXCEPT
                            !.pc = IF go THEN "newPage" ELSE "returned",
                            !.job = sh.item,
                            !.url = FinalUrl(urls[sh.item], argv.replaceUrl),
                            !.attempt = st.wk[w].attempt,
                            !.tries = IF go THEN 1 ELSE 0]],
              queue |-> sh.rest,
              shifts |-> Append(st.shifts, sh.item)]

\* a turn that calls queue.shift() without the test of the queue's length:
\* from the empty queue it gets undefined (entry 0) and goes on with it
ProcessQueueTurnShiftsEmpty(w, st) ==
    LET empty == ~QueueNotEmpty(st.queue)
        sh == IF empty THEN [item |-> 0, rest |-> <<>>] ELSE QueueShift(st.queue)
        go == AttemptAllowed(0, argv.maxRetries)
    IN  [wk |-> [st.wk EXCEPT ![w] =
                    [NoWorker EXCEPT
                        !.pc = IF go THEN "newPage" ELSE "returned",
                        !.job = sh.item,
                        !.url = IF empty THEN <<"undefined">>
                                ELSE FinalUrl(urls[sh.item], argv.replaceUrl),
                        !.tries = IF go THEN 1 ELSE 0]],
         queue |-> sh.rest,
         shifts |-> Append(st.shifts, sh.item)]

\* logic.ts 154-160, 177-179: one turn of processQueue's loop up to the
\* first await, by worker w on st = [wk, queue, shifts]: the await of
\* browser.newPage() in the first attempt, or, when retryRenderPage's loop
\* does not run (maxRetries < 0), the await of retryRenderPage itself
ProcessQueueTurn(w, st) ==
    IF ~QueueNotEmpty(st.queue)
        THEN [st EXCEPT !.wk[w] = [NoWorker EXCEPT !.pc = "done"]]
    ELSE LET sh == QueueShift(st.queue)
             go == AttemptAllowed(0, argv.maxRetries)
         IN  [wk |-> [st.wk EXCEPT ![w] =
                        [NoWorker EXCEPT
                            !.pc = IF go THEN "newPage" ELSE "returned",
                            !.job = sh.item,
                            !.url = FinalUrl(urls[sh.item], argv.replaceUrl),
                            !.tries = IF go THEN 1 ELSE 0]],
              queue |-> sh.rest,
              shifts |-> Append(st.shifts, sh.item)]

\* a loop that starts one task more than asked for
RECURSIVE StartTasksOneMore(_, _, _)
StartTasksOneMore(i, n, st) ==
    IF i > n + 1 THEN st
    ELSE StartTasksOneMore(i + 1, n, ProcessQueueTurn(i, st))

\* logic.ts 132-134: the tasks are started one after the other, each running
\* up to its first await before the next is started
RECURSIVE StartTasks(_, _, _)
StartTasks(i, n, st) ==
    IF i > n THEN st
    ELSE StartTasks(i + 1, n, ProcessQueueTurn(i, st))

\* logic.ts 211: page.goto(url) is called
CallGoto(r) == [r EXCEPT !.pc = "goto", !.navCalls = @ + 1]

\* a deletePreviousFile that leaves the file where it is
AfterEnsureKeepsFile(r, filePath) == CallGoto(r)

\* logic.ts 209, 262: deletePreviousFile up to its await, then line 211
AfterEnsure(r, filePath) ==
    IF filePath \in files THEN [r EXCEPT !.pc = "unlink"] ELSE CallGoto(r)

\* logic.ts 182-192: the catch of retryRenderPage, for the error e of the
\* attempt that worker w, now r, just ended
Catch(w, r, e) ==
    IF RetryAllowed(r.attempt, argv.maxRetries)
        THEN /\ \E jitter \in Jitters :
                    wk' = [wk EXCEPT ![w] =
                            [r EXCEPT !.pc = "sleep", !.err = e,
                                      !.delay = Backoff(r.attempt) + jitter]]
             /\ UNCHANGED exit
    ELSE /\ wk' = [wk EXCEPT ![w] = [r EXCEPT !.pc = "failed", !.err = e]]
         /\ exit' = Fatal("render", r.url, e, w)

Active(w) == Running /\ rev = "current" /\ phase = "workers"

\* logic.ts 203-208: browser.newPage() resolved; ensureDirectoryExistence
\* up to its await
NewPageOk(w) ==
    /\ Active(w) /\ wk[w].pc = "newPage"
    /\ LET r == [wk[w] EXCEPT !.page = TRUE]
           filePath == FilePathOf("current", r.url)
       IN  wk' = [wk EXCEPT ![w] =
                    IF ~DirExists(DirnameOf(filePath))
                        THEN [r EXCEPT !.pc = "mkdir"]
                    ELSE AfterEnsure(r, filePath)]
    /\ UNCHANGED <<paths, rev, argv, sitemap, pending, gets, phase, urls, queue, browser, files,
                   dirs, exit, shifts, rendered, writes>>

\* logic.ts 203: browser.newPage() rejected, outside renderPage's try
NewPageFail(w) ==
    /\ Active(w) /\ wk[w].pc = "newPage"
    /\ Catch(w, [wk[w] EXCEPT !.pageFails = @ + 1], "newPage")
    /\ UNCHANGED <<paths, rev, argv, sitemap, pending, gets, phase, urls, queue, browser, files,
                   dirs, shifts, rendered, writes>>

\* logic.ts 249: mkdir(dir, {recursive: true}) resolved
MkdirOk(w) ==
    /\ Active(w) /\ wk[w].pc = "mkdir"
    /\ LET filePath == FilePathOf("current", wk[w].url)
       IN  /\ dirs' = dirs \cup DirsMadeFor(filePath)
           /\ wk' = [wk EXCEPT ![w] = AfterEnsure(wk[w], filePath)]
    /\ UNCHANGED <<paths, rev, argv, sitemap, pending, gets, phase, urls, queue, browser, files,
                   exit, shifts, rendered, writes>>

\* an ensureDirectoryExistence that throws the error of mkdir to renderPage
MkdirFailThrows(w) ==
    /\ Active(w) /\ wk[w].pc = "mkdir"
    /\ wk' = [wk EXCEPT ![w] = [@ EXCEPT !.pc = "close", !.err = "mkdir"]]
    /\ UNCHANGED <<paths, rev, argv, sitemap, pending, gets, phase, urls, queue, browser, files,
                   dirs, exit, shifts, rendered, writes>>

\* logic.ts 250-253: mkdir rejected: process.exit(1)
MkdirFail(w) ==
    /\ Active(w) /\ wk[w].pc = "mkdir"
    /\ exit' = Fatal("mkdir", DirnameOf(FilePathOf("current", wk[w].url)), "mkdir", w)
    /\ UNCHANGED <<paths, rev, argv, sitemap, pending, gets, phase, urls, queue, wk, browser, files,
                   dirs, shifts, rendered, writes>>

\* logic.ts 264: unlink(filePath) resolved
UnlinkOk(w) ==
    /\ Active(w) /\ wk[w].pc = "unlink"
    /\ files' = files \ {FilePathOf("current", wk[w].url)}
    /\ wk' = [wk EXCEPT ![w] = CallGoto(wk[w])]
    /\ UNCHANGED <<paths, rev, argv, sitemap, pending, gets, phase, urls, queue, browser, dirs,
                   exit, shifts, rendered, writes>>

\* logic.ts 265-268: unlink rejected: process.exit(1)
UnlinkFail(w) ==
    /\ Active(w) /\ wk[w].pc = "unlink"
    /\ exit' = Fatal("unlink", FilePathOf("current", wk[w].url), "unlink", w)
    /\ UNCHANGED <<paths, rev, argv, sitemap, pending, gets, phase, urls, queue, wk, browser, files,
                   dirs, shifts, rendered, writes>>

\* a catch block that reports the error and does not throw it again
ToFinallySwallowed(r, e) == [r EXCEPT !.pc = "close", !.err = "none"]

\* logic.ts 216-220: an error inside renderPage's try: reported, then the
\* finally block calls page.close()
ToFinally(r, e) == [r EXCEPT !.pc = "close", !.err = e]

\* logic.ts 211-213: page.goto resolved, page.content() is called
GotoOk(w) ==
    /\ Active(w) /\ wk[w].pc = "goto"
    /\ wk' = [wk EXCEPT ![w] = [@ EXCEPT !.pc = "content"]]
    /\ UNCHANGED <<paths, rev, argv, sitemap, pending, gets, phase, urls, queue, browser, files,
                   dirs, exit, shifts, rendered, writes>>

GotoFail(w) ==
    /\ Active(w) /\ wk[w].pc = "goto"
    /\ wk' = [wk EXCEPT ![w] = ToFinally(@, "goto")]
    /\ UNCHANGED <<paths, rev, argv, sitemap, pending, gets, phase, urls, queue, browser, files,
                   dirs, exit, shifts, rendered, writes>>

\* logic.ts 213-215: page.content() resolved, writeFile is called
ContentOk(w) ==
    /\ Active(w) /\ wk[w].pc = "content"
    /\ wk' = [wk EXCEPT ![w] = [@ EXCEPT !.pc = "write"]]
    /\ UNCHANGED <<paths, rev, argv, sitemap, pending, gets, phase, urls, queue, browser, files,
                   dirs, exit, shifts, rendered, writes>>

ContentFail(w) ==
    /\ Active(w) /\ wk[w].pc = "content"
    /\ wk' = [wk EXCEPT ![w] = ToFinally(@, "content")]
    /\ UNCHANGED <<paths, rev, argv, sitemap, pending, gets, phase, urls, queue, browser, files,
                   dirs, exit, shifts, rendered, writes>>

\* logic.ts 215, 219-220: writeFile resolved; finally calls page.close()
WriteFileOk(w) ==
    /\ Active(w) /\ wk[w].pc = "write"
    /\ files' = files \cup {FilePathOf("current", wk[w].url)}
    /\ writes' = writes \cup {WriteOf(wk[w], FilePathOf("current", wk[w].url))}
    /\ wk' = [wk EXCEPT ![w] = [@ EXCEPT !.pc = "close", !.err = "none",
                                          !.wrote = TRUE]]
    /\ UNCHANGED <<paths, rev, argv, sitemap, pending, gets, phase, urls, queue, browser, dirs,
                   exit, shifts, rendered>>

WriteFileFail(w) ==
    /\ Active(w) /\ wk[w].pc = "write"
    /\ wk' = [wk EXCEPT ![w] = ToFinally(@, "write")]
    /\ UNCHANGED <<paths, rev, argv, sitemap, pending, gets, phase, urls, queue, browser, files,
                   dirs, exit, shifts, rendered, writes>>

\* logic.ts 220, then 180-181 (retryRenderPage returns) when the try block
\* had ended normally, the catch of retryRenderPage otherwise
PageCloseOk(w) ==
    /\ Active(w) /\ wk[w].pc = "close"
    /\ LET r == [wk[w] EXCEPT !.page = FALSE]
       IN  IF r.err = "none"
               THEN /\ wk' = [wk EXCEPT ![w] = [r EXCEPT !.pc = "returned"]]
                    /\ rendered' = rendered \cup {r.job}
                    /\ UNCHANGED exit
           ELSE /\ Catch(w, r, r.err)
                /\ UNCHANGED rendered
    /\ UNCHANGED <<paths, rev, argv, sitemap, pending, gets, phase, urls, queue, browser, files,
                   dirs, shifts, writes>>

\* logic.ts 220: page.close() rejected: its error is the one renderPage throws
PageCloseFail(w) ==
    /\ Active(w) /\ wk[w].pc = "close"
    /\ Catch(w, [wk[w] EXCEPT !.page = FALSE], "close")
    /\ UNCHANGED <<paths, rev, argv, sitemap, pending, gets, phase, urls, queue, browser, files,
                   dirs, shifts, rendered, writes>>

\* logic.ts 187, 177-179: the backoff timer fired; attempt++ and the loop
\* test, then the next attempt (or, the loop over, retryRenderPage returns)
SleepDone(w) ==
    /\ Active(w) /\ wk[w].pc = "sleep"
    /\ wk' = [wk EXCEPT ![w] =
                IF AttemptAllowed(wk[w].attempt + 1, argv.maxRetries)
                    THEN [@ EXCEPT !.pc = "newPage", !.attempt = @ + 1,
                                   !.err = "none", !.delay = 0,
                                   !.wrote = FALSE, !.tries = @ + 1]
                ELSE [@ EXCEPT !.pc = "returned", !.attempt = @ + 1, !.delay = 0]]
    /\ UNCHANGED <<paths, rev, argv, sitemap, pending, gets, phase, urls, queue, browser, files,
                   dirs, exit, shifts, rendered, writes>>

\* logic.ts 160, 154-155: retryRenderPage has returned; the next turn of
\* processQueue's loop
Returned(w) ==
    /\ Active(w) /\ wk[w].pc = "returned"
    /\ LET st == ProcessQueueTurn(w, [wk |-> wk, queue |-> queue, shifts |-> shifts])
       IN  /\ wk' = st.wk
           /\ queue' = st.queue
           /\ shifts' = st.shifts
    /\ UNCHANGED <<paths, rev, argv, sitemap, pending, gets, phase, urls, browser, files, dirs,
                   exit, rendered, writes>>

\* ------------------------------------ the current revision: startRendering

\* the tasks renderPages started: parallelRenders of them
Started == 1..argv.parallelRenders

\* the command line has an '=' in its --replace-url
HasEq(rule) == \E i \in 1..Len(rule) : rule[i] = "="

\* a check of the sitemap options alone
ArgsValidSourceOnly == argv.sitemapFrom \in {"file", "url"}

\* siterender.ts 37-46: conflicts and check: one of --sitemap-file and
\* --sitemap-url, and a --replace-url, when there is one, with an '='
ArgsValid ==
    /\ argv.sitemapFrom \in {"file", "url"}
    /\ argv.replaceUrl # <<>> => HasEq(argv.replaceUrl)

\* siterender.ts 8-70, logic.ts 29, 46-48, 93: the command line is
\* accepted; startRendering calls getUrls, which starts to read the file or
\* issues the GET request
ParseArgsOk ==
    /\ Running /\ rev = "current" /\ phase = "args"
    /\ ArgsValid
    /\ phase' = "getUrls"
    /\ gets' = IF argv.sitemapFrom = "url" THEN Append(gets, sitemap.src)
               ELSE gets
    /\ UNCHANGED <<paths, rev, argv, sitemap, pending, urls, queue, wk, browser,
                   files, dirs, exit, shifts, rendered, writes>>

\* siterender.ts 37-56: the command line is rejected: the fail handler
\* prints the message and calls process.exit(1)
ParseArgsFail ==
    /\ Running /\ rev = "current" /\ phase = "args"
    /\ ~ArgsValid
    /\ exit' = Fatal("config", <<>>,
                     IF argv.sitemapFrom \in {"file", "url"} THEN "replace-url"
                     ELSE "sitemap", 0)
    /\ UNCHANGED <<paths, rev, argv, sitemap, pending, gets, phase, urls, queue, wk,
                   browser, files, dirs, shifts, rendered, writes>>

\* a parseSitemap that treats url as an array whatever the parser delivered
parseSitemapArrayOnly(doc) ==
    IF doc.root = "urlset" /\ doc.shape # "empty"
        THEN IF doc.shape = "many" THEN [ok |-> TRUE, urls |-> doc.locs]
             ELSE [ok |-> FALSE, urls |-> <<>>]
    ELSE [ok |-> TRUE, urls |-> <<>>]

\* logic.ts 75-84: ok is FALSE for the TypeError of reading loc of an
\* undefined url
parseSitemap(doc) ==
    IF doc.root = "urlset" /\ doc.shape # "empty"
        THEN IF doc.shape = "many" THEN [ok |-> TRUE, urls |-> doc.locs]
             ELSE IF doc.shape = "one" THEN [ok |-> TRUE, urls |-> <<doc.locs[1]>>]
             ELSE [ok |-> FALSE, urls |-> <<>>]
    ELSE [ok |-> TRUE, urls |-> <<>>]

\* logic.ts 29-31: getUrls returned list; puppeteer.launch() is called
GetUrlsReturn(list) ==
    /\ urls' = list
    /\ phase' = "launch"
    /\ browser' = [browser EXCEPT !.launchCalls = @ + 1]
    /\ UNCHANGED exit

\* logic.ts 29, siterender.ts 72-75: getUrls threw a TypeError
GetUrlsThrow ==
    /\ exit' = Fatal("resolve", <<>>, "TypeError", 0)
    /\ UNCHANGED <<urls, phase, browser>>

\* logic.ts 46-67: the content of the sitemap source is there and parsed: a
\* sitemap index has the first of its sitemaps fetched, anything else goes
\* through parseSitemap
GetUrlsOk ==
    /\ Running /\ rev = "current" /\ phase = "getUrls"
    /\ IF sitemap.root = "sitemapindex" /\ sitemap.shape # "empty"
           THEN IF sitemap.shape = "junk"
                    THEN GetUrlsThrow /\ UNCHANGED <<pending, gets>>
                ELSE /\ pending' = sitemap.subs
                     /\ gets' = Append(gets, sitemap.subs[1].src)
                     /\ phase' = "subFetch"
                     /\ UNCHANGED <<urls, browser, exit>>
       ELSE /\ IF parseSitemap(sitemap).ok
                   THEN GetUrlsReturn(parseSitemap(sitemap).urls)
               ELSE GetUrlsThrow
            /\ UNCHANGED <<pending, gets>>
    /\ UNCHANGED <<paths, rev, argv, sitemap, queue, wk, files, dirs, shifts,
                   rendered, writes>>

\* the report of the earlier revision, which does not say which URL failed
FetchErrorNoUrl(src) == Fatal("fetch", <<>>, "fetch", 0)

\* logic.ts 95-98, siterender.ts 72-75: fetchSitemap throws
\* 'Failed to fetch sitemap from <url>: Error: <message of the cause>', and
\* the rejection of startRendering ends the process with exit code 1
FetchError(src) == Fatal("fetch", <<src>>, "fetch", 0)

\* logic.ts 46-48, 95-99, siterender.ts 72-75: the sitemap source cannot be
\* read: fetchSitemap throws an error with the URL and the cause's message,
\* readFile its own error
GetUrlsFail ==
    /\ Running /\ rev = "current" /\ phase = "getUrls"
    /\ exit' = IF argv.sitemapFrom = "url"
                   THEN FetchError(sitemap.src)
               ELSE Fatal("read", <<>>, "read", 0)
    /\ UNCHANGED <<paths, rev, argv, sitemap, pending, gets, phase, urls, queue, wk, browser, files,
                   dirs, shifts, rendered, writes>>

\* logic.ts 58-64: a sitemap of the index is there: its URLs are appended,
\* and the next one is fetched or getUrls returns
SubSitemapOk ==
    /\ Running /\ rev = "current" /\ phase = "subFetch"
    /\ LET r == parseSitemap(Head(pending))
           rest == Tail(pending)
       IN  IF ~r.ok THEN GetUrlsThrow /\ UNCHANGED <<pending, gets>>
           ELSE /\ pending' = rest
                /\ IF rest = <<>>
                       THEN GetUrlsReturn(urls \o r.urls) /\ UNCHANGED gets
                   ELSE /\ urls' = urls \o r.urls
                        /\ gets' = Append(gets, rest[1].src)
                        /\ UNCHANGED <<phase, browser, exit>>
    /\ UNCHANGED <<paths, rev, argv, sitemap, queue, wk, files, dirs, shifts,
                   rendered, writes>>

\* logic.ts 60, 95-99, siterender.ts 72-75: a sitemap of the index cannot
\* be fetched
SubSitemapFail ==
    /\ Running /\ rev = "current" /\ phase = "subFetch"
    /\ exit' = FetchError(Head(pending).src)
    /\ UNCHANGED <<paths, rev, argv, sitemap, pending, gets, phase, urls, queue, wk,
                   browser, files, dirs, shifts, rendered, writes>>

\* logic.ts 31-34, 129-136: the browser is there; renderPages copies the
\* URL list into the queue and starts the tasks
LaunchOk ==
    /\ Running /\ rev = "current" /\ phase = "launch"
    /\ browser' = [browser EXCEPT !.state = "open"]
    /\ LET st == StartTasks(1, argv.parallelRenders,
                            [wk |-> wk,
                             queue |-> [i \in 1..Len(urls) |-> i],
                             shifts |-> shifts])
       IN  /\ wk' = st.wk
           /\ queue' = st.queue
           /\ shifts' = st.shifts
    /\ phase' = "workers"
    /\ UNCHANGED <<paths, rev, argv, sitemap, pending, gets, urls, files, dirs, exit, rendered, writes>>

\* logic.ts 31, siterender.ts 72-75: puppeteer.launch() rejected
LaunchFail ==
    /\ Running /\ rev = "current" /\ phase = "launch"
    /\ exit' = Fatal("launch", <<>>, "launch", 0)
    /\ UNCHANGED <<paths, rev, argv, sitemap, pending, gets, phase, urls, queue, wk, browser, files,
                   dirs, shifts, rendered, writes>>

\* logic.ts 136, 35-36: Promise.all resolved; finally calls browser.close()
RenderPagesReturn ==
    /\ Running /\ rev = "current" /\ phase = "workers"
    /\ \A w \in Started : wk[w].pc = "done"
    /\ phase' = "closing"
    /\ browser' = [browser EXCEPT !.closeCalls = @ + 1]
    /\ UNCHANGED <<paths, rev, argv, sitemap, pending, gets, urls, queue, wk, files, dirs, exit,
                   shifts, rendered, writes>>

\* logic.ts 36, siterender.ts 71: browser.close() resolved; process.exit(0)
BrowserCloseOk ==
    /\ Running /\ rev = "current" /\ phase = "closing"
    /\ browser' = [browser EXCEPT !.state = "closed"]
    /\ exit' = [NoExit EXCEPT !.code = "0"]
    /\ UNCHANGED <<paths, rev, argv, sitemap, pending, gets, phase, urls, queue, wk, files, dirs,
                   shifts, rendered, writes>>

\* logic.ts 36, siterender.ts 72-75: browser.close() rejected
BrowserCloseFail ==
    /\ Running /\ rev = "current" /\ phase = "closing"
    /\ exit' = Fatal("close", <<>>, "close", 0)
    /\ UNCHANGED <<paths, rev, argv, sitemap, pending, gets, phase, urls, queue, wk, browser, files,
                   dirs, shifts, rendered, writes>>

NextCurrent ==
    \/ GetUrlsOk \/ GetUrlsFail \/ SubSitemapOk \/ SubSitemapFail
    \/ LaunchOk \/ LaunchFail
    \/ RenderPagesReturn \/ BrowserCloseOk \/ BrowserCloseFail
    \/ \E w \in Workers :
        \/ NewPageOk(w) \/ NewPageFail(w) \/ MkdirOk(w) \/ MkdirFail(w)
        \/ UnlinkOk(w) \/ UnlinkFail(w) \/ GotoOk(w) \/ GotoFail(w)
        \/ ContentOk(w) \/ ContentFail(w) \/ WriteFileOk(w) \/ WriteFileFail(w)
        \/ PageCloseOk(w) \/ PageCloseFail(w) \/ SleepDone(w) \/ Returned(w)

\* -------------------------------------------- the earlier revision: workers

EActive(w) == Running /\ rev = "earlier" /\ phase = "workers"

\* logic.ts 405-411: one turn of the worker's loop up to its await of
\* fs.promises.rm, by worker w on st = [wk, queue, shifts]
RECURSIVE EWorkerTurn(_, _)
EWorkerTurn(w, st) ==
    IF ~QueueNotEmpty(st.queue)
        THEN [st EXCEPT !.wk[w] = [NoWorker EXCEPT !.pc = "done"]]
    ELSE LET sh == QueueShift(st.queue)
             taken == [st EXCEPT !.queue = sh.rest,
                                 !.shifts = Append(st.shifts, sh.item)]
         IN  IF urls[sh.item] = <<>> THEN EWorkerTurn(w, taken)
             ELSE [taken EXCEPT !.wk[w] =
                     [NoWorker EXCEPT !.pc = "rm", !.job = sh.item,
                                      !.url = urls[sh.item]]]

\* logic.ts 404: the workers are started one after the other
RECURSIVE EStartWorkers(_, _, _)
EStartWorkers(i, n, st) ==
    IF i > n THEN st
    ELSE EStartWorkers(i + 1, n, EWorkerTurn(i, st))

\* what follows the finally block of renderPage (logic.ts 380-388) for
\* worker w, now r: the return of the content and saveRenderedPage's mkdir
\* (371, 419, 349), the next attempt (365, 368), or the error thrown to the
\* catch of processSitemapUrls (378, 391, 421-423)
EAfterFinally(w, r, after) ==
    IF after = "return"
        THEN /\ wk' = [wk EXCEPT ![w] = [r EXCEPT !.pc = "saveMkdir", !.after = "none"]]
             /\ UNCHANGED exit
    ELSE IF after = "retry" /\ AttemptAllowed(r.attempt + 1, argv.maxRetries)
        THEN /\ wk' = [wk EXCEPT ![w] =
                        [r EXCEPT !.pc = "newPage", !.attempt = @ + 1,
                                  !.err = "none", !.after = "none",
                                  !.delay = 0, !.tries = @ + 1]]
             /\ UNCHANGED exit
    ELSE /\ wk' = [wk EXCEPT ![w] = [r EXCEPT !.pc = "failed", !.after = "none"]]
         /\ exit' = Fatal("render", r.url, IF after = "throw" THEN r.err ELSE "after", w)

\* logic.ts 380-388: the finally block: page.close() when a page was opened
EFinally(w, r, after) ==
    IF r.page
        THEN /\ wk' = [wk EXCEPT ![w] = [r EXCEPT !.pc = "close", !.after = after]]
             /\ UNCHANGED exit
    ELSE EAfterFinally(w, r, after)

\* logic.ts 372-379: the catch of renderPage for the error e
ECatch(w, r, e) ==
    IF RetryAllowed(r.attempt, argv.maxRetries)
        THEN /\ \E delay \in EarlierDelays :
                    wk' = [wk EXCEPT ![w] =
                            [r EXCEPT !.pc = "sleep", !.err = e, !.delay = delay]]
             /\ UNCHANGED exit
    ELSE EFinally(w, [r EXCEPT !.err = e], "throw")

\* logic.ts 411, 418, 365-368: rm resolved; renderPage's first attempt
\* calls browser.newPage(), or its loop does not run and line 391 throws
ERmOk(w) ==
    /\ EActive(w) /\ wk[w].pc = "rm"
    /\ files' = files \ {FilePathOf("earlier", wk[w].url)}
    /\ IF AttemptAllowed(0, argv.maxRetries)
           THEN /\ wk' = [wk EXCEPT ![w] = [@ EXCEPT !.pc = "newPage", !.tries = 1]]
                /\ UNCHANGED exit
       ELSE EAfterFinally(w, wk[w], "after")
    /\ UNCHANGED <<paths, rev, argv, sitemap, pending, gets, phase, urls, queue, browser, dirs,
                   shifts, rendered, writes>>

\* logic.ts 412-415: rm rejected: reported, and the loop goes on
ERmFail(w) ==
    /\ EActive(w) /\ wk[w].pc = "rm"
    /\ LET st == EWorkerTurn(w, [wk |-> wk, queue |-> queue, shifts |-> shifts])
       IN  /\ wk' = st.wk
           /\ queue' = st.queue
           /\ shifts' = st.shifts
    /\ UNCHANGED <<paths, rev, argv, sitemap, pending, gets, phase, urls, browser, files, dirs,
                   exit, rendered, writes>>

\* logic.ts 368-369: newPage resolved; page.goto is called
ENewPageOk(w) ==
    /\ EActive(w) /\ wk[w].pc = "newPage"
    /\ wk' = [wk EXCEPT ![w] = CallGoto([@ EXCEPT !.page = TRUE])]
    /\ UNCHANGED <<paths, rev, argv, sitemap, pending, gets, phase, urls, queue, browser, files,
                   dirs, exit, shifts, rendered, writes>>

ENewPageFail(w) ==
    /\ EActive(w) /\ wk[w].pc = "newPage"
    /\ ECatch(w, [wk[w] EXCEPT !.pageFails = @ + 1], "newPage")
    /\ UNCHANGED <<paths, rev, argv, sitemap, pending, gets, phase, urls, queue, browser, files,
                   dirs, shifts, rendered, writes>>

\* logic.ts 369-370
EGotoOk(w) ==
    /\ EActive(w) /\ wk[w].pc = "goto"
    /\ wk' = [wk EXCEPT ![w] = [@ EXCEPT !.pc = "content"]]
    /\ UNCHANGED <<paths, rev, argv, sitemap, pending, gets, phase, urls, queue, browser, files,
                   dirs, exit, shifts, rendered, writes>>

EGotoFail(w) ==
    /\ EActive(w) /\ wk[w].pc = "goto"
    /\ ECatch(w, wk[w], "goto")
    /\ UNCHANGED <<paths, rev, argv, sitemap, pending, gets, phase, urls, queue, browser, files,
                   dirs, shifts, rendered, writes>>

\* logic.ts 370-371, 380-383: the content is there; finally closes the page
EContentOk(w) ==
    /\ EActive(w) /\ wk[w].pc = "content"
    /\ EFinally(w, wk[w], "return")
    /\ UNCHANGED <<paths, rev, argv, sitemap, pending, gets, phase, urls, queue, browser, files,
                   dirs, shifts, rendered, writes>>

EContentFail(w) ==
    /\ EActive(w) /\ wk[w].pc = "content"
    /\ ECatch(w, wk[w], "content")
    /\ UNCHANGED <<paths, rev, argv, sitemap, pending, gets, phase, urls, queue, browser, files,
                   dirs, shifts, rendered, writes>>

\* logic.ts 376, 380: the delay is over; the finally block runs
ESleepDone(w) ==
    /\ EActive(w) /\ wk[w].pc = "sleep"
    /\ EFinally(w, wk[w], "retry")
    /\ UNCHANGED <<paths, rev, argv, sitemap, pending, gets, phase, urls, queue, browser, files,
                   dirs, shifts, rendered, writes>>

\* logic.ts 383
EPageCloseOk(w) ==
    /\ EActive(w) /\ wk[w].pc = "close"
    /\ EAfterFinally(w, [wk[w] EXCEPT !.page = FALSE], wk[w].after)
    /\ UNCHANGED <<paths, rev, argv, sitemap, pending, gets, phase, urls, queue, browser, files,
                   dirs, shifts, rendered, writes>>

\* logic.ts 384-386: page.close() rejected: reported and dropped
EPageCloseFail(w) ==
    /\ EActive(w) /\ wk[w].pc = "close"
    /\ EAfterFinally(w, [wk[w] EXCEPT !.page = FALSE], wk[w].after)
    /\ UNCHANGED <<paths, rev, argv, sitemap, pending, gets, phase, urls, queue, browser, files,
                   dirs, shifts, rendered, writes>>

\* logic.ts 349-350: saveRenderedPage's mkdir resolved; writeFile is called
ESaveMkdirOk(w) ==
    /\ EActive(w) /\ wk[w].pc = "saveMkdir"
    /\ dirs' = dirs \cup DirsMadeFor(FilePathOf("earlier", wk[w].url))
    /\ wk' = [wk EXCEPT ![w] = [@ EXCEPT !.pc = "saveWrite"]]
    /\ UNCHANGED <<paths, rev, argv, sitemap, pending, gets, phase, urls, queue, browser, files,
                   exit, shifts, rendered, writes>>

\* logic.ts 351-354
ESaveMkdirFail(w) ==
    /\ EActive(w) /\ wk[w].pc = "saveMkdir"
    /\ exit' = Fatal("save", FilePathOf("earlier", wk[w].url), "mkdir", w)
    /\ UNCHANGED <<paths, rev, argv, sitemap, pending, gets, phase, urls, queue, wk, browser, files,
                   dirs, shifts, rendered, writes>>

\* logic.ts 350, 420, 405: the file is written; the loop's next turn
ESaveWriteOk(w) ==
    /\ EActive(w) /\ wk[w].pc = "saveWrite"
    /\ files' = files \cup {FilePathOf("earlier", wk[w].url)}
    /\ rendered' = rendered \cup {wk[w].job}
    /\ writes' = writes \cup {WriteOf(wk[w], FilePathOf("earlier", wk[w].url))}
    /\ LET st == EWorkerTurn(w, [wk |-> wk, queue |-> queue, shifts |-> shifts])
       IN  /\ wk' = st.wk
           /\ queue' = st.queue
           /\ shifts' = st.shifts
    /\ UNCHANGED <<paths, rev, argv, sitemap, pending, gets, phase, urls, browser, dirs, exit>>

\* logic.ts 351-354
ESaveWriteFail(w) ==
    /\ EActive(w) /\ wk[w].pc = "saveWrite"
    /\ exit' = Fatal("save", FilePathOf("earlier", wk[w].url), "write", w)
    /\ UNCHANGED <<paths, rev, argv, sitemap, pending, gets, phase, urls, queue, wk, browser, files,
                   dirs, shifts, rendered, writes>>

\* ---------------------------------------------- the earlier revision: main

\* An error thrown out of main rejects its promise, and node ends the
\* process with exit code 1.

\* logic.ts 469-471 and 491-493: the first turn of a retry loop on the
\* browser: the call is made, or the loop does not run and 482 / 505 throws
EBrowserLoop(b, nextPhase, cause, counter) ==
    IF AttemptAllowed(0, argv.maxRetries)
        THEN /\ phase' = nextPhase
             /\ browser' = [b EXCEPT !.attempt = 0, !.delay = 0, ![counter] = @ + 1]
             /\ UNCHANGED exit
    ELSE /\ exit' = Fatal(cause, <<>>, "after", 0)
         /\ browser' = b
         /\ UNCHANGED phase

\* logic.ts 473-479 and 496-502: the catch of a retry loop on the browser
EBrowserCatch(sleepPhase, cause) ==
    IF RetryAllowed(browser.attempt, argv.maxRetries)
        THEN /\ \E delay \in EarlierDelays :
                    browser' = [browser EXCEPT !.delay = delay]
             /\ phase' = sleepPhase
             /\ UNCHANGED exit
    ELSE /\ exit' = Fatal(cause, <<>>, cause, 0)
         /\ UNCHANGED <<phase, browser>>

\* logic.ts 476, 469-471 and 499, 491-493: the delay is over; attempt++, the
\* loop test and the next call
EBrowserRetry(callPhase, cause, counter) ==
    IF AttemptAllowed(browser.attempt + 1, argv.maxRetries)
        THEN /\ phase' = callPhase
             /\ browser' = [browser EXCEPT !.attempt = @ + 1, !.delay = 0,
                                           ![counter] = @ + 1]
             /\ UNCHANGED exit
    ELSE /\ exit' = Fatal(cause, <<>>, "after", 0)
         /\ UNCHANGED <<phase, browser>>

\* logic.ts 509-551: the command line names one sitemap source
EArgsValid == argv.sitemapFrom \in {"file", "url"}

\* logic.ts 509-547, 435-441: the command line is accepted;
\* processSitemapIndex starts to read the file or issues the GET request
EParseArgsOk ==
    /\ Running /\ rev = "earlier" /\ phase = "args"
    /\ EArgsValid
    /\ phase' = "getUrls"
    /\ pending' = <<sitemap>>
    /\ gets' = IF argv.sitemapFrom = "url" THEN Append(gets, sitemap.src)
               ELSE gets
    /\ UNCHANGED <<paths, rev, argv, sitemap, urls, queue, wk, browser, files,
                   dirs, exit, shifts, rendered, writes>>

\* logic.ts 513, 518, 548-551: both sources or none: process.exit(1)
EParseArgsFail ==
    /\ Running /\ rev = "earlier" /\ phase = "args"
    /\ ~EArgsValid
    /\ exit' = Fatal("config", <<>>, "sitemap", 0)
    /\ UNCHANGED <<paths, rev, argv, sitemap, pending, gets, phase, urls, queue, wk,
                   browser, files, dirs, shifts, rendered, writes>>

\* logic.ts 444-460, 543-557: the content of the next source is there and
\* parsed.  A sitemap index with an array of sitemaps has them read before
\* anything else, first one first (the recursive call of line 450); a URL
\* set has its locs appended; everything else gives nothing.  With nothing
\* left to read processSitemapIndex returns to main: replaceUrl, then the
\* launch loop.  for ... of over a single sitemap object is a TypeError.
EResolveOk ==
    /\ Running /\ rev = "earlier" /\ phase = "getUrls"
    /\ LET doc == Head(pending)
           rest == Tail(pending)
           found == IF doc.root = "urlset" /\ doc.shape \in {"one", "many"}
                        THEN doc.locs ELSE <<>>
       IN  IF doc.root = "sitemapindex" /\ doc.shape \in {"one", "many"}
               THEN IF doc.shape = "one"
                        THEN /\ exit' = Fatal("resolve", <<>>, "TypeError", 0)
                             /\ UNCHANGED <<pending, gets, urls, phase, browser>>
                    ELSE /\ pending' = doc.subs \o rest
                         /\ gets' = Append(gets, doc.subs[1].src)
                         /\ UNCHANGED <<urls, phase, browser, exit>>
           ELSE IF rest # <<>>
               THEN /\ urls' = urls \o found
                    /\ pending' = rest
                    /\ gets' = Append(gets, rest[1].src)
                    /\ UNCHANGED <<phase, browser, exit>>
           ELSE /\ urls' = IF argv.replaceUrl # <<>>
                               THEN replaceUrl(urls \o found, argv.replaceUrl)
                           ELSE urls \o found
                /\ pending' = rest
                /\ UNCHANGED gets
                /\ EBrowserLoop(browser, "launch", "launch", "launchCalls")
    /\ UNCHANGED <<paths, rev, argv, sitemap, queue, wk, files, dirs, shifts,
                   rendered, writes>>

\* logic.ts 439-441, 295-298: the next source cannot be read: fetchSitemap
\* reports the cause's message and calls process.exit(1); readFile rejects
EResolveFail ==
    /\ Running /\ rev = "earlier" /\ phase = "getUrls"
    /\ exit' = IF Head(pending).src = "top" /\ argv.sitemapFrom = "file"
                   THEN Fatal("read", <<>>, "read", 0)
               ELSE Fatal("fetch", <<>>, "fetch", 0)
    /\ UNCHANGED <<paths, rev, argv, sitemap, pending, gets, phase, urls, queue, wk,
                   browser, files, dirs, shifts, rendered, writes>>

\* logic.ts 471, 558, 403-404: the browser is there; processSitemapUrls
\* copies the URL list into the queue and starts the workers
ELaunchOk ==
    /\ Running /\ rev = "earlier" /\ phase = "launch"
    /\ browser' = [browser EXCEPT !.state = "open", !.attempt = 0]
    /\ LET st == EStartWorkers(1, argv.parallelRenders,
                               [wk |-> wk,
                                queue |-> [i \in 1..Len(urls) |-> i],
                                shifts |-> shifts])
       IN  /\ wk' = st.wk
           /\ queue' = st.queue
           /\ shifts' = st.shifts
    /\ phase' = "workers"
    /\ UNCHANGED <<paths, rev, argv, sitemap, pending, gets, urls, files, dirs, exit, rendered, writes>>

\* logic.ts 472-479
ELaunchFail ==
    /\ Running /\ rev = "earlier" /\ phase = "launch"
    /\ EBrowserCatch("launchSleep", "launch")
    /\ UNCHANGED <<paths, rev, argv, sitemap, pending, gets, urls, queue, wk, files, dirs, shifts,
                   rendered, writes>>

\* logic.ts 476, 469-471
ELaunchSleepDone ==
    /\ Running /\ rev = "earlier" /\ phase = "launchSleep"
    /\ EBrowserRetry("launch", "launch", "launchCalls")
    /\ UNCHANGED <<paths, rev, argv, sitemap, pending, gets, urls, queue, wk, files, dirs, shifts,
                   rendered, writes>>

\* logic.ts 427, 559, 491-493: Promise.all resolved; the close loop
EWorkersReturn ==
    /\ Running /\ rev = "earlier" /\ phase = "workers"
    /\ \A w \in Started : wk[w].pc = "done"
    /\ EBrowserLoop(browser, "closing", "close", "closeCalls")
    /\ UNCHANGED <<paths, rev, argv, sitemap, pending, gets, urls, queue, wk, files, dirs, shifts,
                   rendered, writes>>

\* logic.ts 493-494, 560-561: browser.close() resolved; process.exit(0)
ECloseOk ==
    /\ Running /\ rev = "earlier" /\ phase = "closing"
    /\ browser' = [browser EXCEPT !.state = "closed"]
    /\ exit' = [NoExit EXCEPT !.code = "0"]
    /\ UNCHANGED <<paths, rev, argv, sitemap, pending, gets, phase, urls, queue, wk, files, dirs,
                   shifts, rendered, writes>>

\* logic.ts 495-502
ECloseFail ==
    /\ Running /\ rev = "earlier" /\ phase = "closing"
    /\ EBrowserCatch("closeSleep", "close")
    /\ UNCHANGED <<paths, rev, argv, sitemap, pending, gets, urls, queue, wk, files, dirs, shifts,
                   rendered, writes>>

\* logic.ts 499, 491-493
ECloseSleepDone ==
    /\ Running /\ rev = "earlier" /\ phase = "closeSleep"
    /\ EBrowserRetry("closing", "close", "closeCalls")
    /\ UNCHANGED <<paths, rev, argv, sitemap, pending, gets, urls, queue, wk, files, dirs, shifts,
                   rendered, writes>>

NextEarlier ==
    \/ EResolveOk \/ EResolveFail \/ ELaunchOk \/ ELaunchFail
    \/ ELaunchSleepDone \/ EWorkersReturn \/ ECloseOk \/ ECloseFail
    \/ ECloseSleepDone
    \/ \E w \in Workers :
        \/ ERmOk(w) \/ ERmFail(w) \/ ENewPageOk(w) \/ ENewPageFail(w)
        \/ EGotoOk(w) \/ EGotoFail(w) \/ EContentOk(w) \/ EContentFail(w)
        \/ ESleepDone(w) \/ EPageCloseOk(w) \/ EPageCloseFail(w)
        \/ ESaveMkdirOk(w) \/ ESaveMkdirFail(w) \/ ESaveWriteOk(w)
        \/ ESaveWriteFail(w)

\* the command line, of both revisions
NextStart == ParseArgsOk \/ ParseArgsFail \/ EParseArgsOk \/ EParseArgsFail

Next == NextStart \/ NextCurrent \/ NextEarlier

Spec == Init /\ [][Next]_vars

\* the retry loop in depth: the current revision from the call of getUrls
\* on, one worker, one URL, an empty output directory, and up to
\* MaxDeepRetries retries
InitRetry ==
    /\ rev = "current"
    /\ argv \in [parallelRenders : {1},
                 maxRetries : (-1)..MaxDeepRetries,
                 replaceUrl : {<<>>},
                 sitemapFrom : {"url"},
                 output : OutputDirs]
    /\ sitemap \in {UrlSet("top", <<url>>) : url \in UrlPool}
                    \cup {SitemapIndex("top", <<UrlSet("s1", <<<<"O">>>>)>>)}
    /\ paths = [url \in RenderUrlsOf(sitemap, argv.replaceUrl) |->
                    PathsFor(rev, url, argv.output)]
    /\ pending = <<>>
    /\ gets = <<"top">>
    /\ phase = "getUrls"
    /\ urls = <<>>
    /\ queue = <<>>
    /\ wk = [w \in Workers |-> NoWorker]
    /\ browser = [state |-> "none", launchCalls |-> 0, closeCalls |-> 0,
                  attempt |-> 0, delay |-> 0]
    /\ files = {}
    /\ dirs = {}
    /\ exit = NoExit
    /\ shifts = <<>>
    /\ rendered = {}
    /\ writes = {}

SpecRetry == InitRetry /\ [][NextCurrent]_vars

\* every call that is pending settles and every timer fires: a step is
\* taken as long as one can be
SpecFair == Init /\ [][Next]_vars /\ WF_vars(Next)

\* ------------------------------------- the front end: inputs in breadth

\* sitemap documents: URL sets of every shape, a document that is neither
\* a URL set nor an index, and indexes of every shape, one of them with an
\* index among its sitemaps
FrontDocs ==
    {UrlSet("top", <<>>),
     UrlSet("top", <<<<"O", "/", "a">>>>),
     UrlSet("top", <<<<"O", "/", "b">>, <<"O", "/", "a">>>>),
     UrlSet("top", <<<<"O", "/", "a">>, <<"O">>, <<"O", "/", "b">>>>),
     UrlSet("top", <<<<"O", "/", "a">>, <<"O", "/", "a", "/">>>>),
     Doc("top", "urlset", "junk", <<>>, <<>>),
     Doc("top", "other", "empty", <<>>, <<>>),
     Doc("top", "other", "junk", <<>>, <<>>),
     SitemapIndex("top", <<>>),
     Doc("top", "sitemapindex", "junk", <<>>, <<>>),
     SitemapIndex("top", <<UrlSet("s1", <<<<"O", "/", "a">>>>)>>),
     SitemapIndex("top", <<UrlSet("s1", <<<<"O", "/", "b">>>>),
                           UrlSet("s2", <<<<"O">>, <<"O", "/", "a">>>>)>>),
     SitemapIndex("top", <<UrlSet("s1", <<>>),
                           Doc("s2", "urlset", "junk", <<>>, <<>>)>>),
     SitemapIndex("top",
         <<SitemapIndex("s1", <<UrlSet("s2", <<<<"O", "/", "b">>>>),
                                UrlSet("s3", <<<<"O">>>>)>>),
           UrlSet("s4", <<<<"O", "/", "a">>>>)>>)}

\* one worker and one retry; either one URL with every rule and output
\* root, or every document and way to name the source with no rule
InitFront ==
    /\ rev \in Revs
    /\ \/ /\ argv \in [parallelRenders : {1}, maxRetries : {1},
                        replaceUrl : FrontRules, sitemapFrom : {"url"},
                        output : FrontOutputDirs]
          /\ sitemap \in {UrlSet("top", <<url>>) : url \in FrontUrls}
       \/ /\ argv \in [parallelRenders : {1}, maxRetries : {1},
                        replaceUrl : {<<>>},
                        sitemapFrom : {"file", "url", "none", "both"},
                        output : OutputDirs]
          /\ sitemap \in FrontDocs
    /\ paths = [url \in RenderUrlsOf(sitemap, argv.replaceUrl) |->
                    PathsFor(rev, url, argv.output)]
    /\ pending = <<>>
    /\ gets = <<>>
    /\ phase = "args"
    /\ urls = <<>>
    /\ queue = <<>>
    /\ wk = [w \in Workers |-> NoWorker]
    /\ browser = [state |-> "none", launchCalls |-> 0, closeCalls |-> 0,
                  attempt |-> 0, delay |-> 0]
    /\ files = {}
    /\ dirs = {}
    /\ exit = NoExit
    /\ shifts = <<>>
    /\ rendered = {}
    /\ writes = {}

SpecFront == InitFront /\ [][Next]_vars

\* ================================================================ claims

\* the queue entries: one per position of the resolved URL list
Jobs == 1..Len(urls)

\* how often queue entry j was removed by queue.shift()
TimesShifted(j) == Cardinality({i \in 1..Len(shifts) : shifts[i] = j})

\* how often queue entry j is in the queue
TimesQueued(j) == Cardinality({i \in 1..Len(queue) : queue[i] = j})

\* the worker is inside a render attempt: between browser.newPage() and the
\* end of the attempt's finally block
InAttempt(w) ==
    IF rev = "current"
        THEN wk[w].pc \in {"mkdir", "unlink", "goto", "content", "write", "close"}
    ELSE wk[w].pc \in {"goto", "content", "sleep", "close"}

\* C1: no duplicate dispatch.  Every queue entry is removed by queue.shift()
\* at most once: it is either in the queue, once, or was handed to a worker,
\* once; a worker holds only an entry that was removed from the queue, no
\* two workers hold the same entry, and only removed entries get rendered.
C1_NoDuplicateDispatch ==
    /\ \A j \in Jobs : TimesShifted(j) <= 1
    /\ phase \in {"workers", "closing", "closeSleep"} =>
            \A j \in Jobs : TimesQueued(j) + TimesShifted(j) = 1
    /\ \A w \in Workers :
            wk[w].job # 0 => (TimesShifted(wk[w].job) = 1 /\ TimesQueued(wk[w].job) = 0)
    /\ \A w1, w2 \in Workers :
            (w1 # w2 /\ wk[w1].job # 0) => wk[w1].job # wk[w2].job
    /\ \A j \in rendered : TimesShifted(j) = 1

\* two workers hold two different queue entries at the same time
C1_Witness ==
    /\ shifts = <<1, 2>>
    /\ wk[1].job = 1 /\ wk[2].job = 2
    /\ wk[1].page /\ wk[2].page

\* C2 (as claimed): the run ends with exit code 0 only if the queue is empty
\* and every URL of the resolved list had a render that returned normally.
C2_SuccessMeansAllRendered ==
    exit.code = "0" => (queue = <<>> /\ \A j \in Jobs : j \in rendered)

C5_ExhaustedRetriesAbort ==
    /\ \A w \in Workers :
            (/\ wk[w].pc \in {"sleep", "failed", "returned"}
             /\ wk[w].err # "none"
             /\ wk[w].tries >= argv.maxRetries + 1) =>
                exit = Fatal("render", wk[w].url, wk[w].err, w)
    /\ exit.code = "0" => \A w \in Workers : wk[w].pc # "failed"
    /\ exit.fatal = "render" => exit.code = "1"

\* the second of two attempts failed in page.content(): the run ends with
\* exit code 1 and the line names the URL and that failure
C5_Witness ==
    /\ argv.maxRetries = 1
    /\ \E w \in Workers :
            /\ wk[w].pc = "failed" /\ wk[w].tries = 2 /\ wk[w].err = "content"
            /\ exit = Fatal("render", wk[w].url, "content", w)

\* C6 (as claimed): a page is open only inside a render attempt: an attempt
\* that has ended, the process exit out of that attempt included, has had
\* its page closed.
C6_PageClosedOnEveryExitPath ==
    \A w \in Workers :
        wk[w].page => (InAttempt(w) /\ exit.worker # w)

\* C7 (as claimed): a run that launched the browser and has ended has called
\* browser.close().
C7_BrowserClosedBeforeExit ==
    (~Running /\ browser.state # "none") => browser.closeCalls >= 1

\* C8 (as claimed): a run that launched the browser ends with the browser
\* launched once and closed once; pages are open, and page operations
\* pending, only while the browser is open; one worker on one URL of an
\* empty output directory leaves exactly one file.
C8_BrowserLifecycle ==
    /\ (~Running /\ browser.state # "none") => browser.state = "closed"
    /\ \A w \in Workers :
            (wk[w].page \/ wk[w].pc \in {"newPage", "goto", "content", "close"}) =>
                browser.state = "open"
    /\ (~Running /\ browser.state # "none"
        /\ argv.parallelRenders = 1 /\ Len(urls) = 1) => Cardinality(files) = 1

\* C9 (as claimed): with a retry budget of at least one, a browser launch
\* (a browser close) is fatal only after it was called at least twice; a
\* fatal launch comes before any URL is taken from the queue.
C9_BrowserRetryPolicy ==
    /\ (exit.fatal = "launch" /\ argv.maxRetries >= 1) => browser.launchCalls >= 2
    /\ (exit.fatal = "close" /\ argv.maxRetries >= 1) => browser.closeCalls >= 2
    /\ exit.fatal = "launch" => (shifts = <<>> /\ rendered = {})

\* the base delay after the failed attempt numbered attempt
BaseDelay(attempt) ==
    IF attempt = 0 THEN 1000
    ELSE IF attempt = 1 THEN 2000
    ELSE IF attempt = 2 THEN 4000
    ELSE 8000

\* C10: a worker of the current revision waits only after a failed attempt
\* that is not the last one, and then for the base delay 1000, 2000, 4000,
\* 8000, 8000, ... of that attempt plus a jitter in [0, 1000), which is a
\* delay in [1000, 9000).
C10_BackoffDelay ==
    \A w \in Workers :
        /\ wk[w].pc = "sleep" =>
                /\ wk[w].err # "none"
                /\ wk[w].attempt < argv.maxRetries
                /\ wk[w].delay - BaseDelay(wk[w].attempt) >= 0
                /\ wk[w].delay - BaseDelay(wk[w].attempt) < 1000
                /\ wk[w].delay >= 1000 /\ wk[w].delay < 9000
        /\ wk[w].pc # "sleep" => wk[w].delay = 0

\* the wait after the fifth failed attempt: the ceiling of 8000 ms applies
C10_Witness ==
    \E w \in Workers :
        wk[w].pc = "sleep" /\ wk[w].attempt = 4 /\ wk[w].delay = 8999

\* the URL with its leading oldPrefix replaced by newPrefix, the URL itself
\* when it does not begin with oldPrefix or when there is no rule
PrefixRewrite(url, rule) ==
    IF rule = <<>> THEN url
    ELSE LET old == parseUrlReplacement(rule).oldPrefix
             new == parseUrlReplacement(rule).newPrefix
         IN  IF StartsWith(url, old)
                 THEN new \o SubSeq(url, Len(old) + 1, Len(url))
             ELSE url

C13_MalformedRuleRejected ==
    (/\ rev = "current"
     /\ argv.replaceUrl # <<>>
     /\ \A i \in 1..Len(argv.replaceUrl) : argv.replaceUrl[i] # "=") =>
        /\ phase = "args"
        /\ gets = <<>> /\ pending = <<>> /\ urls = <<>>
        /\ browser.launchCalls = 0 /\ browser.state = "none"
        /\ shifts = <<>> /\ rendered = {} /\ files = {}
        /\ \A w \in Workers : wk[w] = NoWorker
        /\ exit.code # "0"
        /\ exit.code = "1" => (exit.fatal = "config" /\ exit.msg = "replace-url")

\* the rule N was rejected
C13_Witness ==
    /\ rev = "current"
    /\ argv.replaceUrl = <<"N">>
    /\ exit = Fatal("config", <<>>, "replace-url", 0)
    /\ gets = <<>> /\ browser.launchCalls = 0

\* how often a GET request was issued for the address src
TimesFetched(src) == Cardinality({i \in 1..Len(gets) : gets[i] = src})

\* C14: when the current revision ends on a sitemap that cannot be fetched,
\* the error names the address of that sitemap and gives the message of the
\* cause, the address is the last one a GET request was issued for and the
\* only request for it, the exit code is 1, and the browser was not
\* launched and no URL was dequeued or rendered.
C14_FetchErrorAborts ==
    (rev = "current" /\ exit.fatal = "fetch") =>
        /\ exit.code = "1"
        /\ Len(exit.named) = 1 /\ exit.msg = "fetch"
        /\ gets # <<>> /\ exit.named[1] = gets[Len(gets)]
        /\ TimesFetched(exit.named[1]) = 1
        /\ browser.launchCalls = 0 /\ browser.state = "none"
        /\ shifts = <<>> /\ rendered = {} /\ files = {}

\* the second sitemap of an index could not be fetched
C14_Witness ==
    /\ rev = "current"
    /\ exit = Fatal("fetch", <<"s2">>, "fetch", 0)
    /\ gets = <<"top", "s1", "s2">>

\* the URLs of a tree of sitemaps, depth first in document order
RECURSIVE Flatten(_)
Flatten(doc) ==
    IF doc.root = "urlset" THEN doc.locs
    ELSE IF doc.root = "sitemapindex"
        THEN LET RECURSIVE Cat(_)
                 Cat(subs) == IF subs = <<>> THEN <<>>
                              ELSE Flatten(Head(subs)) \o Cat(Tail(subs))
             IN  Cat(doc.subs)
    ELSE <<>>

\* getUrls has returned
Resolved == rev = "current" /\ phase \notin {"args", "getUrls", "subFetch"}

\* C15: once the current revision has resolved a sitemap index, the URL list
\* is the concatenation, depth first and in index order, of the URLs of the
\* sitemaps it refers to, those of nested indexes included.
C15_IndexFlattened ==
    (Resolved /\ sitemap.root = "sitemapindex") => urls = Flatten(sitemap)

\* C16: parseSitemap, applied by the current revision to a URL set with N >= 1
\* loc entries, returns the N URLs in document order, for the single object
\* the parser delivers when N = 1 as for the array; getUrls returns that list
\* and does not throw.
C16_ParseSitemapInOrder ==
    (rev = "current" /\ sitemap.root = "urlset" /\ Len(sitemap.locs) >= 1) =>
        /\ parseSitemap(sitemap) = [ok |-> TRUE, urls |-> sitemap.locs]
        /\ exit.fatal # "resolve"
        /\ Resolved => /\ urls = sitemap.locs
                       /\ Len(urls) = Len(sitemap.locs)

\* an array of three entries came back in document order
C16_Witness ==
    /\ Resolved
    /\ sitemap.root = "urlset" /\ sitemap.shape = "many"
    /\ urls = <<<<"O", "/", "a">>, <<"O">>, <<"O", "/", "b">>>>

\* content that is no sitemap index and has no URL entry: another root or
\* none, or a urlset root with nothing in it or with something else in it
NoEntries(doc) ==
    \/ doc.root = "other"
    \/ doc.root = "urlset" /\ doc.shape \in {"empty", "junk"}

\* C17: content of the current revision's sitemap source that has no URL
\* entries and no sitemap entries never raises an error: it resolves to the
\* empty list, the browser is launched, nothing is rendered and the run
\* does not end with exit code 1 out of the resolution.
C17_NoEntriesResolveEmpty ==
    (rev = "current" /\ NoEntries(sitemap)) =>
        /\ exit.fatal # "resolve"
        /\ Resolved => urls = <<>> /\ browser.launchCalls >= 1
        /\ rendered = {} /\ shifts = <<>>

\* the URL that the worker renders for entry j of the URL list
RenderedUrl(j) ==
    IF rev = "current" THEN FinalUrl(urls[j], argv.replaceUrl) ELSE urls[j]

\* the two cases of the policy: a path from the root of its origin that
\* ends in '/', or whose last segment has no '.'
InPolicy(p) ==
    /\ StartsWith(p, <<"/">>)
    /\ EndsWith(p, <<"/">>) \/ LastIndexOf(Last(Split(p)), ".") = 0

Policy(p) ==
    IF EndsWith(p, <<"/">>) THEN p \o IndexHtml ELSE p \o <<"/">> \o IndexHtml

\* no other entry of the URL list is mapped to the file of entry j
UniquePath(j) ==
    \A k \in (1..Len(urls)) \ {j} :
        getFilePath(RenderedUrl(k), OutputDir) # getFilePath(RenderedUrl(j), OutputDir)

\* C18: the file written for a URL whose path ends in '/' is the output
\* root followed by the path and 'index.html', and that of one whose path
\* has no extension is the output root followed by the path and
\* '/index.html', as path names; root 'out' gives 'out/index.html' for the
\* path '/' and 'out/a/index.html' for '/a', and the origin of the URL makes
\* no difference.
C18_PathPolicy ==
    /\ \A e \in writes :
            LET p == Pathname(RenderedUrl(e.job))
            IN  InPolicy(p) =>
                    /\ e.path = PathNormalize(argv.output \o Policy(p))
                    /\ (e.job \in rendered /\ UniquePath(e.job)) => e.path \in files
    /\ getFilePath(<<"O", "/">>, <<"out">>) = <<"out", "/">> \o IndexHtml
    /\ getFilePath(<<"O", "/", "a">>, <<"out">>)
            = <<"out", "/", "a", "/">> \o IndexHtml
    /\ getFilePath(<<"N", "/", "a">>, argv.output)
            = getFilePath(<<"O", "/", "a">>, argv.output)

\* the page of O/a was written to out/a/index.html
C18_Witness ==
    /\ rev = "current" /\ rendered = {1}
    /\ urls = <<<<"O", "/", "a">>>>
    /\ argv.output = <<"out">> /\ argv.replaceUrl = <<>>
    /\ files = {<<"out", "/", "a", "/">> \o IndexHtml}

\* the directory that root names, without a '/' at its end
RootDir(root) ==
    LET n == PathNormalize(root)
    IN  IF Len(n) > 1 /\ Last(n) = "/" THEN SubSeq(n, 1, Len(n) - 1) ELSE n

\* the normalized path f is that of a file below the directory root
Inside(f, root) ==
    LET r == RootDir(root)
    IN  IF r = <<".">> THEN f[1] # "/" /\ Head(Split(f)) # <<".", ".">>
        ELSE IF r = <<"/">> THEN f[1] = "/"
        ELSE StartsWith(f, r \o <<"/">>)

\* C19: whatever the URL and the output root, the path the current revision
\* maps a URL to, removes and writes is that of a file below the output
\* root.
C19_InsideOutputRoot ==
    rev = "current" =>
        /\ \A w \in Workers :
                wk[w].job # 0 => Inside(getFilePath(wk[w].url, OutputDir), OutputDir)
        /\ \A f \in files : Inside(f, OutputDir)

\* what holds of a worker of the current revision between the steps of an
\* attempt
C20_Ensured ==
    /\ \A w \in Workers :
        (rev = "current" /\ wk[w].job # 0) =>
            LET f == getFilePath(wk[w].url, OutputDir)
                alone == UniquePath(wk[w].job)
            IN  /\ wk[w].pc \in {"unlink", "goto", "content", "write"} =>
                        DirExists(PathDirname(f))
                /\ (wk[w].pc \in {"goto", "content", "write"} /\ alone) =>
                        f \notin files
                /\ (wk[w].wrote /\ alone) => f \in files
    /\ \A j \in rendered :
        (rev = "current" /\ UniquePath(j)) =>
            getFilePath(RenderedUrl(j), OutputDir) \in files

\* the order of the steps of an attempt, and who adds a file
C20_Step ==
    rev = "current" =>
        /\ \A w \in Workers :
            LET from == wk[w].pc
                to == wk'[w].pc
            IN  /\ (to = "mkdir" /\ from # to) => from = "newPage"
                /\ (to = "unlink" /\ from # to) => from \in {"newPage", "mkdir"}
                /\ (to = "goto" /\ from # to) =>
                        from \in {"newPage", "mkdir", "unlink"}
                /\ (to = "content" /\ from # to) => from = "goto"
                /\ (to = "write" /\ from # to) => from = "content"
        /\ \A f \in files' \ files :
            \E w \in Workers :
                /\ wk[w].pc = "write" /\ wk'[w].wrote
                /\ f = getFilePath(wk[w].url, OutputDir)

\* C20: an attempt of the current revision goes from ensuring the directory
\* to removing the file at the mapped path, to navigating, to capturing, to
\* writing: while it navigates, captures and writes, the directory of the
\* mapped path exists and no file is at that path, the only files added are
\* those written at the mapped path of a worker that captured a page, and
\* the file of a rendered URL is at its mapped path.
C20_WriteOrder == []C20_Ensured /\ [][C20_Step]_vars

\* a worker wrote its page in an attempt that is a retry
C20_Witness ==
    \E w \in Workers :
        /\ rev = "current" /\ wk[w].job # 0 /\ UniquePath(wk[w].job)
        /\ wk[w].wrote /\ wk[w].attempt = 1
        /\ getFilePath(wk[w].url, OutputDir) \in files

\* C21: in the current revision the process exits with code 0 exactly when
\* the whole pipeline succeeded: the queue drained, every URL of the list
\* rendered and the browser closed, with no fatal condition; every fatal
\* condition gives exit code 1, and exit code 1 is given for nothing else.
C21_ExitCodeContract ==
    rev = "current" =>
        /\ exit.code = "0" =>
                /\ exit.fatal = "none"
                /\ queue = <<>> /\ \A j \in Jobs : j \in rendered
                /\ browser.state = "closed"
        /\ exit.fatal # "none" => exit.code = "1"
        /\ exit.code = "1" =>
                exit.fatal \in {"config", "fetch", "read", "resolve", "launch",
                                "close", "render", "mkdir", "unlink"}

\* the workers that hold a URL: dequeued, and retryRenderPage not returned
Rendering == {w \in Workers : wk[w].job # 0 /\ wk[w].pc \notin {"returned", "done"}}

\* C22: renderPages of the current revision starts exactly parallelRenders
\* workers, none before the launch; they take their URLs from the one
\* queue, each a different entry that queue.shift() removed; and at every
\* moment at most parallelRenders URLs are being rendered and at most
\* parallelRenders pages are open.
C22_AtMostParallel ==
    rev = "current" =>
        /\ {w \in Workers : wk[w].pc # "unborn"}
                = IF phase \in {"workers", "closing"} THEN Started ELSE {}
        /\ \A w \in Rendering :
                /\ \E i \in 1..Len(shifts) : shifts[i] = wk[w].job
                /\ \A v \in Rendering \ {w} : wk[v].job # wk[w].job
        /\ Cardinality(Rendering) <= argv.parallelRenders
        /\ Cardinality({w \in Workers : wk[w].page}) <= argv.parallelRenders
        /\ \A w \in Workers : wk[w].page => w \in Rendering

\* two workers, each with a URL and an open page
C22_Witness ==
    /\ rev = "current" /\ argv.parallelRenders = 2
    /\ Cardinality(Rendering) = 2
    /\ Cardinality({w \in Workers : wk[w].page}) = 2

\* C23: the queue holds the entries of the resolved list in their order and
\* queue.shift() takes them from the front: the i-th entry dequeued is the
\* i-th URL of the list and the queue is the rest of the list, whatever the
\* number of workers and their interleaving; with one worker a URL is
\* rendered before the next one is dequeued, so they complete in that order.
C23_FifoOrder ==
    /\ \A i \in 1..Len(shifts) : shifts[i] = i
    /\ phase = "workers" =>
            queue = [k \in 1..(Len(urls) - Len(shifts)) |-> Len(shifts) + k]
    /\ argv.parallelRenders = 1 =>
            \A j \in rendered :
                /\ j <= Len(shifts)
                /\ \A w \in Rendering : wk[w].job > j

\* one worker renders the second URL after the first
C23_Witness ==
    /\ rev = "current" /\ argv.parallelRenders = 1
    /\ shifts = <<1, 2>> /\ rendered = {1}
    /\ \E w \in Rendering : wk[w].job = 2 /\ wk[w].page

\* a path from the root of its origin whose last segment has an extension
HasExtension(p) ==
    /\ StartsWith(p, <<"/">>)
    /\ LastIndexOf(Last(Split(p)), ".") > 1

C25_NextOnlyAfterSuccess ==
    \A i \in 1..Len(shifts) :
        \/ shifts[i] \in rendered
        \/ \E w \in Rendering : wk[w].job = shifts[i]

\* C25: in the current revision, once a worker has exhausted the retries of
\* its URL nothing is dequeued and no attempt is started any more, and a
\* worker takes the next queue entry only after the entry it holds was
\* rendered.
C25_AbortStopsWorkers ==
    /\ [](rev = "current" => C25_NextOnlyAfterSuccess)
    /\ [][(rev = "current" /\ exit.fatal = "render") => UNCHANGED vars]_vars

\* queue entry j had an attempt whose writeFile resolved
WasWritten(j) == \E e \in writes : e.job = j

\* C28: retryRenderPage of the current revision returns only after a
\* renderPage call for its URL ended normally, the file written: whatever
\* maxRetries is, a worker whose retryRenderPage has returned, a URL that
\* counts as rendered and a URL that a worker has left behind each had an
\* attempt that wrote the file.
C28_ReturnMeansRendered ==
    rev = "current" =>
        /\ \A w \in Workers :
                wk[w].pc = "returned" =>
                    /\ wk[w].wrote /\ WasWritten(wk[w].job)
                    /\ wk[w].job \in rendered
        /\ \A j \in rendered : WasWritten(j)
        /\ \A i \in 1..Len(shifts) :
                (\A w \in Rendering : wk[w].job # shifts[i]) => WasWritten(shifts[i])

\* C26: with every pending call settling and every timer firing, a run over
\* a finite URL list with a finite maxRetries ends: the process exits, with
\* code 0 or with code 1.
C26_Terminates == <>(exit.code # "none")

\* a run that ended after its last URL was retried
C26_Witness ==
    /\ exit.code = "0" /\ queue = <<>>
    /\ Len(urls) = 2 /\ rendered = {1, 2}
    /\ \E e \in writes : e.attempt = 1

\* the process has exited out of ensureDirectoryExistence or
\* deletePreviousFile: with code 1, out of the attempt in which mkdir or
\* unlink was called, an attempt that has not navigated, and with no retry
\* taken for it
C27_ExitedInAttempt ==
    exit.fatal \in {"mkdir", "unlink"} =>
        LET r == wk[exit.worker]
        IN  /\ exit.code = "1" /\ exit.msg = exit.fatal
            /\ r.pc = exit.fatal /\ r.page
            /\ r.navCalls + r.pageFails = r.attempt
            /\ r.tries = r.attempt + 1
            /\ exit.named = IF exit.fatal = "mkdir"
                                THEN PathDirname(getFilePath(r.url, OutputDir))
                            ELSE getFilePath(r.url, OutputDir)

\* the await of mkdir or unlink of worker w ends in one of two ways: the
\* call has done its work and the attempt goes on, or the process exits
C27_AwaitEnds(w) ==
    (wk[w].pc \in {"mkdir", "unlink"} /\ wk'[w] # wk[w]) =>
        LET f == getFilePath(wk[w].url, OutputDir)
        IN  /\ wk'[w].pc \in {"unlink", "goto"}
            /\ wk'[w].attempt = wk[w].attempt
            /\ wk[w].pc = "mkdir" => PathDirname(f) \in dirs'
            /\ wk[w].pc = "unlink" => f \notin files'
            /\ exit' = exit

\* C27: in the current revision a failure of mkdir or of unlink ends the
\* process at once with exit code 1, in the attempt that made the call: the
\* error is not thrown to renderPage or retryRenderPage, no retry is taken
\* and page.goto is not called in that attempt.
C27_FsFailureFatal ==
    /\ [](rev = "current" => C27_ExitedInAttempt)
    /\ [][rev = "current" => \A w \in Workers : C27_AwaitEnds(w)]_vars

\* mkdir failed in the first attempt, with a retry left
C27_Witness ==
    /\ rev = "current" /\ exit.fatal = "mkdir" /\ exit.code = "1"
    /\ wk[exit.worker].attempt = 0 /\ argv.maxRetries = 1

\* C29: in the current revision a file path is written at most once in a
\* run, two different URLs of the list have different file paths, and no
\* two workers hold URLs with the same file path at the same time.
C29_WriteOnce ==
    rev = "current" =>
        /\ \A e1, e2 \in writes : e1.path = e2.path => e1 = e2
        /\ \A i, j \in 1..Len(urls) :
                urls[i] # urls[j] =>
                    getFilePath(RenderedUrl(i), OutputDir)
                        # getFilePath(RenderedUrl(j), OutputDir)
        /\ \A v, w \in Rendering :
                v # w => getFilePath(wk[v].url, OutputDir)
                            # getFilePath(wk[w].url, OutputDir)

\* C30: in the current revision, when an attempt for a URL has ended (the
\* retry delay runs, the retries are exhausted, or retryRenderPage has
\* returned) a file at the URL's path was written in this run: no file of
\* an earlier run is left there.
C30_NoStaleArtifact ==
    rev = "current" =>
        \A w \in Workers :
            (wk[w].tries >= 1 /\ wk[w].pc \in {"sleep", "failed", "returned"}) =>
                LET f == getFilePath(wk[w].url, OutputDir)
                IN  f \in files => \E e \in writes : e.path = f

\* the attempt counter of the URL a worker holds is that URL's own: the
\* delay of a retry is the backoff of this attempt number and a jitter, and
\* a URL is given up only after maxRetries + 1 attempts of its own
C31_OwnBudget ==
    \A w \in Workers :
        LET r == wk[w]
        IN  r.job # 0 =>
                /\ r.attempt >= 0 /\ r.tries <= r.attempt + 1
                /\ r.pc = "sleep" =>
                        /\ r.attempt < argv.maxRetries
                        /\ r.delay - Backoff(r.attempt) \in Jitters
                /\ r.pc = "failed" =>
                        /\ r.attempt = argv.maxRetries
                        /\ r.tries = argv.maxRetries + 1

\* worker w takes a URL with the counter at 0, and its counter goes up by
\* one for the retry of its own URL and for nothing else; no step of
\* another worker changes it
C31_CounterStep(w) ==
    /\ (wk'[w].job # wk[w].job /\ wk'[w].job # 0) =>
            /\ wk'[w].attempt = 0 /\ wk'[w].tries <= 1
            /\ wk'[w].navCalls = 0 /\ wk'[w].pageFails = 0
    /\ (wk'[w].job = wk[w].job /\ wk'[w].attempt # wk[w].attempt) =>
            /\ wk[w].pc = "sleep" /\ wk'[w].attempt = wk[w].attempt + 1
            /\ \A v \in Workers \ {w} : wk'[v] = wk[v]

\* C31: in the current revision the retry budget is per URL: every URL
\* that is dequeued starts at attempt 0, whatever happened to the URLs
\* before it or to the URL of another worker, a URL is given up only after
\* maxRetries + 1 attempts of its own, and the delay before a retry is the
\* backoff of that URL's own attempt number.
C31_BudgetPerUrl ==
    /\ [](rev = "current" => C31_OwnBudget)
    /\ [][rev = "current" => \A w \in Workers : C31_CounterStep(w)]_vars

\* one worker is at the retry of its URL while the other waits for the
\* first retry of its own
C31_Witness ==
    /\ rev = "current" /\ argv.maxRetries = 1
    /\ wk[1].job = 1 /\ wk[1].attempt = 1
    /\ wk[2].job = 2 /\ wk[2].attempt = 0
    /\ wk[2].pc = "sleep" /\ wk[2].delay \in {1000, 1999}

\* C32: in the current revision queue.shift() is called on a queue that is
\* not empty only: every entry taken is an entry of the URL list, and a
\* worker past its start either holds such an entry or has ended; a worker
\* that found the queue empty at its start ends without a page, a
\* navigation or a file; and over an empty URL list the browser is launched
\* and closed with no page opened.
C32_NoUndefinedJob ==
    rev = "current" =>
        /\ \A i \in 1..Len(shifts) : shifts[i] \in Jobs
        /\ Len(shifts) <= Len(urls)
        /\ phase = "workers" => Len(shifts) + Len(queue) = Len(urls)
        /\ \A w \in Workers :
                /\ wk[w].pc \notin {"unborn", "done"} =>
                        /\ wk[w].job \in Jobs
                        /\ wk[w].url = FinalUrl(urls[wk[w].job], argv.replaceUrl)
                /\ wk[w].job = 0 =>
                        /\ wk[w].pc \in {"unborn", "done"}
                        /\ ~wk[w].page /\ wk[w].tries = 0
                        /\ wk[w].navCalls = 0 /\ wk[w].pageFails = 0
        /\ (urls = <<>> /\ phase \in {"workers", "closing"}) =>
                /\ shifts = <<>> /\ writes = {}
                /\ \A w \in Started : wk[w].pc = "done" /\ wk[w].job = 0
                /\ browser.launchCalls = 1
                /\ exit.code = "0" =>
                        browser.closeCalls = 1 /\ browser.state = "closed"

\* of two workers and one URL, one worker has the page of the URL open and
\* the other has ended with nothing
C32_Witness ==
    /\ rev = "current" /\ argv.parallelRenders = 2 /\ Len(urls) = 1
    /\ wk[1].job = 1 /\ wk[1].page
    /\ wk[2].job = 0 /\ wk[2].pc = "done"

====
